---- MODULE Spec2Model ----
\* Event Management System (src/app.py): the session's event collection, the
\* three store functions (add_new_event, delete_event, edit_event), the form
\* handlers that call them, and the sorted and searched views.
EXTENDS Integers, Sequences, FiniteSets, TLC

\* ---------------------------------------------------------------- bounds

\* Size of the pool uuid4 draws from: two ids go to the seeded events, the
\* rest bound the number of adds in a run.
NumIds == 3

\* ---------------------------------------------------------------- text
\* A Python str is a sequence of one-character strings.

\* The characters in use, in code-point order (space < '.' < 'A'..'Z' < 'a'..'z').
Ascii ==
  << " ", ".",
     "A", "B", "C", "D", "E", "F", "G", "H", "I", "J", "K", "L", "M",
     "N", "O", "P", "Q", "R", "S", "T", "U", "V", "W", "X", "Y", "Z",
     "a", "b", "c", "d", "e", "f", "g", "h", "i", "j", "k", "l", "m",
     "n", "o", "p", "q", "r", "s", "t", "u", "v", "w", "x", "y", "z" >>

\* ord(c): the position of c in code-point order.
ord(c) == CHOOSE i \in 1..Len(Ascii) : Ascii[i] = c

\* One character of str.lower(): 'A'..'Z' map to 'a'..'z', the rest is kept.
lower_char(c) == IF ord(c) >= ord("A") /\ ord(c) <= ord("Z") THEN Ascii[ord(c) + 26] ELSE c

\* str.lower()
lower(s) == [i \in 1..Len(s) |-> lower_char(s[i])]

\* Python truthiness of a str: non-empty.
truthy(s) == Len(s) > 0

\* Python's < on str: lexicographic by code point, a proper prefix is smaller.
str_lt(a, b) ==
  \E k \in 1..(Len(b)) :
     /\ \A j \in 1..(k - 1) : j <= Len(a) /\ a[j] = b[j]
     /\ k - 1 <= Len(a)
     /\ (k = Len(a) + 1 \/ (k <= Len(a) /\ ord(a[k]) < ord(b[k])))

\* One pattern character of a regular expression against one character of the
\* text: '.' matches any character, every other character here is a literal.
re_char(p, c) == p = "." \/ p = c

\* re.search(pat, s) is not None, for patterns of literals and '.'.
re_search(pat, s) ==
  \E off \in 0..(Len(s) - Len(pat)) :
     \A j \in 1..Len(pat) : re_char(pat[j], s[off + j])

\* Series.str.contains(pat, na=False): regex=True by default.
str_contains(s, pat) == re_search(pat, s)

\* ---------------------------------------------------------------- events

\* uuid4 values.
IDs == {<<"uuid", i>> : i \in 1..NumIds}

\* st.session_state.editing_event_id = None
None == <<"None">>

\* The first option of the edit selectbox.
Placeholder == <<"-- Select Event to Edit --">>

\* A widget that the current page does not render has no value.
Unset == <<"unset">>

\* The same for the two selectboxes whose options are plain strings.
UnsetOption == "(unset)"

Pages == {"Add Event", "View & Sort Events", "Search Events"}

Statuses == {"Planned", "Booked", "Complete", "Cancelled"}

\* The two events the session starts with, without their ids.
SeedData ==
  << [name |-> << "A","n","n","u","a","l"," ","T","e","c","h"," ","S","u","m","m","i","t" >>,
      date |-> 20251210, time |-> 930,
      location |-> << "C","i","t","y"," ","C","o","n","v","e","n","t","i","o","n"," ","C","e","n","t","e","r" >>,
      attendees |-> 500, budget |-> 15000, status |-> "Planned"],
     [name |-> << "C","l","i","e","n","t"," ","A","p","p","r","e","c","i","a","t","i","o","n"," ","D","i","n","n","e","r" >>,
      date |-> 20251128, time |-> 1800,
      location |-> << "T","h","e"," ","G","r","a","n","d"," ","B","a","l","l","r","o","o","m" >>,
      attendees |-> 85, budget |-> 4200, status |-> "Booked"] >>

\* An event record: the data plus its id.
MkEvent(id, name, date, time, location, attendees, budget, status) ==
  [id |-> id, name |-> name, date |-> date, time |-> time, location |-> location,
   attendees |-> attendees, budget |-> budget, status |-> status]

\* What the forms can submit. number_input(min_value=1) and
\* number_input(min_value=0.00) keep attendees >= 1 and budget >= 0; the text
\* inputs return whatever was typed, the empty string included.
FormInputs ==
  { [name |-> << "G","a","l","a" >>, date |-> 20251210, time |-> 1900,
     location |-> << "H","a","l","l" >>, attendees |-> 85, budget |-> 1000,
     status |-> "Booked"],
    [name |-> << " ", " " >>, date |-> 20260101, time |-> 1900,
     location |-> << "H","a","l","l" >>, attendees |-> 10, budget |-> 0,
     status |-> "Booked"],
    [name |-> << >>, date |-> 20251210, time |-> 1900,
     location |-> << "H","a","l","l" >>, attendees |-> 85, budget |-> 1000,
     status |-> "Planned"],
    [name |-> << "G","a","l","a" >>, date |-> 20251210, time |-> 1900,
     location |-> << >>, attendees |-> 1, budget |-> 1000,
     status |-> "Complete"] }

\* What a direct caller of the store functions can pass: the functions take any
\* dict, so also numbers the widgets would refuse and a dict with no 'status'.
CallInputs ==
  FormInputs \cup
  { [name |-> << "G","a","l","a" >>, date |-> 20251128, time |-> 1900,
     location |-> << "H","a","l","l" >>, attendees |-> 0, budget |-> -1,
     status |-> "Cancelled"],
    [name |-> << "E","x","p","o" >>, date |-> 20251128, time |-> 800,
     location |-> << "H","a","l","l" >>, attendees |-> 85, budget |-> 4200] }

\* ---------------------------------------------------------------- store

\* A uuid4 that may return a value it has returned before (ids taken from a
\* small or re-seeded source).
uuid4_repeating(ids_drawn) == IF ids_drawn = IDs THEN {} ELSE IDs

\* uuid.uuid4(): a 122-bit random value, taken here as never repeating one the
\* session has drawn before. The code only compares ids for equality, so the
\* k-th value drawn is named k: the possible outcomes given the ids drawn so
\* far (none once the pool is used up).
uuid4(ids_drawn) == {<<"uuid", Cardinality(ids_drawn) + 1>>} \cap IDs

\* [e['id'] for e in events]
ids_of(ev) == {ev[i].id : i \in 1..Len(ev)}

\* data.get('status', 'Planned')
get_status(data) == IF "status" \in DOMAIN data THEN data.status ELSE "Planned"

\* An add_new_event that ignores the form's status and stores 'Planned'.
add_new_event_planned(ev, data, new_id) ==
  [events |-> Append(ev, MkEvent(new_id, data.name, data.date, data.time,
                                 data.location, data.attendees, data.budget,
                                 "Planned")),
   page |-> "View & Sort Events",
   msg |-> "added"]

\* add_new_event up to st.rerun(): the new event is appended, the page is set.
add_new_event(ev, data, new_id) ==
  [events |-> Append(ev, MkEvent(new_id, data.name, data.date, data.time,
                                 data.location, data.attendees, data.budget,
                                 get_status(data))),
   page |-> "View & Sort Events",
   msg |-> "added"]

\* A delete_event without the length check: it reports success every time.
delete_event_unchecked(ev, editing, event_id) ==
  [events |-> SelectSeq(ev, LAMBDA e : e.id # event_id),
   editing_event_id |-> None, msg |-> "deleted"]

\* A delete_event with the filter inverted: it keeps the event it should drop.
delete_event_inverted(ev, editing, event_id) ==
  LET kept == SelectSeq(ev, LAMBDA e : e.id = event_id)
  IN  IF Len(kept) < Len(ev)
      THEN [events |-> kept, editing_event_id |-> None, msg |-> "deleted"]
      ELSE [events |-> kept, editing_event_id |-> editing, msg |-> "NotFound"]

\* A delete_event that leaves editing_event_id as it was.
delete_event_keeps_editing(ev, editing, event_id) ==
  LET kept == SelectSeq(ev, LAMBDA e : e.id # event_id)
  IN  IF Len(kept) < Len(ev)
      THEN [events |-> kept, editing_event_id |-> editing, msg |-> "deleted"]
      ELSE [events |-> kept, editing_event_id |-> editing, msg |-> "NotFound"]

\* delete_event up to st.rerun(): the list without the events of that id.
delete_event(ev, editing, event_id) ==
  LET kept == SelectSeq(ev, LAMBDA e : e.id # event_id)
  IN  IF Len(kept) < Len(ev)
      THEN [events |-> kept, editing_event_id |-> None, msg |-> "deleted"]
      ELSE [events |-> kept, editing_event_id |-> editing, msg |-> "NotFound"]

\* An update that leaves 'status' out of the dict.
update_fields_no_status(e, new_data) ==
  [e EXCEPT !.name = new_data.name, !.date = new_data.date, !.time = new_data.time,
            !.location = new_data.location, !.attendees = new_data.attendees,
            !.budget = new_data.budget]

\* dict.update of the seven fields of one event; 'id' is not among them.
update_fields(e, new_data) ==
  [e EXCEPT !.name = new_data.name, !.date = new_data.date, !.time = new_data.time,
            !.location = new_data.location, !.attendees = new_data.attendees,
            !.budget = new_data.budget, !.status = new_data.status]

\* edit_event up to st.rerun(): the first event of that id is updated (break).
edit_event(ev, editing, event_id, new_data) ==
  LET hits == {i \in 1..Len(ev) : ev[i].id = event_id}
  IN  IF hits # {}
      THEN LET first == CHOOSE i \in hits : \A j \in hits : i <= j
           IN  [events |-> [ev EXCEPT ![first] = update_fields(ev[first], new_data)],
                editing_event_id |-> None, msg |-> "updated"]
      ELSE [events |-> ev, editing_event_id |-> editing, msg |-> "NotFound"]

\* ---------------------------------------------------------------- state

VARIABLES
  events,            \* st.session_state.events
  page,              \* st.session_state.page
  editing_event_id,  \* st.session_state.editing_event_id
  drawn,             \* the uuid4 values drawn so far
  msg,               \* the outcome the last handler reported (st.success / st.error)
  edit_select,       \* the value of the selectbox key='edit_select'
  sort_by,           \* the value of the selectbox key='sort_select'
  search_field,      \* the value of the 'Search By:' selectbox
  search_term        \* the value of the search text input

vars == << events, page, editing_event_id, drawn, msg, edit_select, sort_by,
           search_field, search_term >>

widgets == << edit_select, sort_by, search_field, search_term >>

\* The session after the first run of the script: the two seeded events with
\* their uuid4 ids, the 'Add Event' page, nothing being edited.
Init ==
  \E i1 \in uuid4({}) : \E i2 \in uuid4({i1}) :
    /\ events = << MkEvent(i1, SeedData[1].name, SeedData[1].date, SeedData[1].time,
                           SeedData[1].location, SeedData[1].attendees,
                           SeedData[1].budget, SeedData[1].status),
                   MkEvent(i2, SeedData[2].name, SeedData[2].date, SeedData[2].time,
                           SeedData[2].location, SeedData[2].attendees,
                           SeedData[2].budget, SeedData[2].status) >>
    /\ drawn = {i1, i2}
    /\ page = "Add Event"
    /\ editing_event_id = None
    /\ msg = ""
    /\ edit_select = Unset
    /\ sort_by = UnsetOption
    /\ search_field = UnsetOption
    /\ search_term = Unset

\* ---------------------------------------------------------------- the store, called directly

\* add_new_event(data)
CallAddNewEvent(data) ==
  \E new_id \in uuid4(drawn) :
    LET r == add_new_event(events, data, new_id)
    IN  /\ events' = r.events
        /\ page' = r.page
        /\ msg' = r.msg
        /\ drawn' = drawn \cup {new_id}
        /\ UNCHANGED << editing_event_id, widgets >>

\* delete_event(event_id)
CallDeleteEvent(event_id) ==
  LET r == delete_event(events, editing_event_id, event_id)
  IN  /\ events' = r.events
      /\ editing_event_id' = r.editing_event_id
      /\ msg' = r.msg
      /\ UNCHANGED << page, drawn, widgets >>

\* edit_event(event_id, new_data); new_data['status'] must exist (KeyError).
CallEditEvent(event_id, new_data) ==
  LET r == edit_event(events, editing_event_id, event_id, new_data)
  IN  /\ events' = r.events
      /\ editing_event_id' = r.editing_event_id
      /\ msg' = r.msg
      /\ UNCHANGED << page, drawn, widgets >>

\* The dicts edit_event can be called with.
EditInputs == {d \in CallInputs : "status" \in DOMAIN d}

StoreNext ==
  \/ \E data \in CallInputs : CallAddNewEvent(data)
  \/ \E event_id \in IDs : CallDeleteEvent(event_id)
  \/ \E event_id \in IDs : \E new_data \in EditInputs : CallEditEvent(event_id, new_data)

StoreSpec == Init /\ [][StoreNext]_vars

\* ---------------------------------------------------------------- views

SortOptions ==
  {"Date (Newest first)", "Date (Oldest first)", "Attendees (High to Low)", "Name (A-Z)"}

SearchFields == {"name", "location"}

\* What the user types in the search box.
SearchTerms ==
  { << >>,
    << "T","e","c","h" >>,
    << " ","c","i","t","y" >>,
    << "." >> }

\* The comparison sort_values sorts column `by` with: Python's < on the values.
key_lt(by, a, b) == IF by = "name" THEN str_lt(a.name, b.name) ELSE a[by] < b[by]

\* DataFrame.sort_values(by=by, ascending=ascending) with the default
\* kind='quicksort', which is not a stable sort: every ordering of the rows in
\* which the keys are in order is a possible result.
sort_values(df, by, ascending) ==
  LET n == Len(df)
      perms == {p \in [1..n -> 1..n] : \A i, j \in 1..n : i # j => p[i] # p[j]}
      in_order(p) ==
        \A i, j \in 1..n :
          i < j => IF ascending THEN ~key_lt(by, df[p[j]], df[p[i]])
                                ELSE ~key_lt(by, df[p[i]], df[p[j]])
  IN  {[i \in 1..n |-> df[p[i]]] : p \in {q \in perms : in_order(q)}}

\* The if/elif chain on sort_by of view_sort_events_view.
sorted_df(df, option) ==
  IF option = "Date (Newest first)" THEN sort_values(df, "date", FALSE)
  ELSE IF option = "Date (Oldest first)" THEN sort_values(df, "date", TRUE)
  ELSE IF option = "Attendees (High to Low)" THEN sort_values(df, "attendees", FALSE)
  ELSE sort_values(df, "name", TRUE)

\* events_df[events_df[field].str.lower().str.contains(search_term.lower(), na=False)]
filter_df(df, field, term) ==
  SelectSeq(df, LAMBDA e : str_contains(lower(e[field]), lower(term)))

\* The table search_events_view shows: none without a search term.
search_results(df, field, term) ==
  IF truthy(term) THEN filter_df(df, field, term) ELSE << >>

\* The option the edit selectbox starts on: index(editing_event_id) in
\* [placeholder] + ids, or 0 on ValueError.
default_option(ev, editing) ==
  IF editing \in ids_of(ev) THEN editing ELSE Placeholder

\* The value of the edit selectbox in a run the user did not change it in: the
\* framework either keeps the widget's value (when it still is an option) or
\* builds the widget anew on its default index.
edit_select_values(ev, editing, previous) ==
  {default_option(ev, editing)} \cup
  (IF previous \in ids_of(ev) \cup {Placeholder} THEN {previous} ELSE {})

\* ---------------------------------------------------------------- one run of the script

\* The script from the navigation radio on, for the session (ev, pg, editing)
\* and the widget values of this run: sets the page, every widget and table,
\* and editing_event_id (the assignment under `if selected_edit_id != ...`).
\* The tables a run shows are df_sorted and filtered_df below.
Script(ev, pg, editing, selected, sort, field, term) ==
  /\ page' = pg
  /\ IF pg = "View & Sort Events" /\ ev # << >>
     THEN /\ sort_by' = sort
          /\ \E sel \in selected :
               /\ edit_select' = sel
               /\ editing_event_id' = IF sel # Placeholder THEN sel ELSE editing
          /\ search_field' = UnsetOption
          /\ search_term' = Unset
     ELSE IF pg = "Search Events" /\ ev # << >>
     THEN /\ search_field' = field
          /\ search_term' = term
          /\ editing_event_id' = editing
          /\ edit_select' = Unset
          /\ sort_by' = UnsetOption
     ELSE /\ editing_event_id' = editing
          /\ edit_select' = Unset
          /\ sort_by' = UnsetOption
          /\ search_field' = UnsetOption
          /\ search_term' = Unset

\* The rows of the table of view_sort_events_view: the possible results of the
\* sort of the collection by the chosen option.
df_sorted == sorted_df(events, sort_by)

\* The rows of the table of search_events_view.
filtered_df == search_results(events, search_field, search_term)

\* The widget values of a run in which the user changed none of them.
kept_sort == IF sort_by = UnsetOption THEN "Date (Newest first)" ELSE sort_by
kept_field == IF search_field = UnsetOption THEN "name" ELSE search_field
kept_term == IF search_term = Unset THEN << >> ELSE search_term

\* A run started by st.rerun() or by a widget other than the edit selectbox.
Rerun(ev, pg, editing) ==
  Script(ev, pg, editing, edit_select_values(ev, editing, edit_select),
         kept_sort, kept_field, kept_term)

\* ---------------------------------------------------------------- the handlers

\* The sidebar radio: the user picks another page.
Navigate ==
  \E p \in Pages \ {page} :
    /\ Rerun(events, p, editing_event_id)
    /\ msg' = ""
    /\ UNCHANGED << events, drawn >>

\* add_event_view: 'Submit Event'. After add_new_event's st.rerun() the radio
\* shows the page add_new_event set or, if the framework kept the radio's own
\* value, the 'Add Event' page again.
SubmitEvent(data) ==
  /\ page = "Add Event"
  /\ IF truthy(data.name) /\ truthy(data.location)
     THEN \E new_id \in uuid4(drawn) :
            LET r == add_new_event(events, data, new_id)
            IN  /\ events' = r.events
                /\ drawn' = drawn \cup {new_id}
                /\ msg' = r.msg
                /\ \E pg \in {r.page, page} : Rerun(r.events, pg, editing_event_id)
     ELSE /\ msg' = "ValidationFailed"
          /\ UNCHANGED << events, drawn, page, editing_event_id, widgets >>

\* view_sort_events_view: the user picks a sort order.
ChooseSort ==
  /\ page = "View & Sort Events"
  /\ events # << >>
  /\ \E option \in SortOptions \ {sort_by} :
       Script(events, page, editing_event_id,
              edit_select_values(events, editing_event_id, edit_select),
              option, kept_field, kept_term)
  /\ msg' = ""
  /\ UNCHANGED << events, drawn >>

\* view_sort_events_view: the user picks an option of the edit selectbox.
ChooseEdit ==
  /\ page = "View & Sort Events"
  /\ events # << >>
  /\ \E option \in (ids_of(events) \cup {Placeholder}) \ {edit_select} :
       Script(events, page, editing_event_id, {option}, kept_sort, kept_field, kept_term)
  /\ msg' = ""
  /\ UNCHANGED << events, drawn >>

\* view_sort_events_view: 'Save Changes' of the edit form, which is shown for
\* the selected event only.
SaveChanges(new_data) ==
  /\ page = "View & Sort Events"
  /\ edit_select \in ids_of(events)
  /\ LET r == edit_event(events, edit_select, edit_select, new_data)
     IN  /\ events' = r.events
         /\ msg' = r.msg
         /\ Rerun(r.events, page, r.editing_event_id)
  /\ UNCHANGED drawn

\* view_sort_events_view: 'Delete Selected Event' with the typed id.
DeleteSelectedEvent(event_id_to_delete) ==
  /\ page = "View & Sort Events"
  /\ events # << >>
  /\ LET editing == IF edit_select # Placeholder THEN edit_select ELSE editing_event_id
     IN  IF event_id_to_delete \in ids_of(events)
         THEN LET r == delete_event(events, editing, event_id_to_delete)
              IN  /\ events' = r.events
                  /\ msg' = r.msg
                  /\ Rerun(r.events, page, r.editing_event_id)
         ELSE /\ msg' = "NotFound"
              /\ editing_event_id' = editing
              /\ UNCHANGED << events, page, widgets >>
  /\ UNCHANGED drawn

\* search_events_view: the user picks the field; the text input's label names
\* the field, so the text input is a new, empty widget.
ChooseSearchField ==
  /\ page = "Search Events"
  /\ events # << >>
  /\ \E field \in SearchFields \ {search_field} :
       Script(events, page, editing_event_id, {Placeholder}, kept_sort, field, << >>)
  /\ msg' = ""
  /\ UNCHANGED << events, drawn >>

\* search_events_view: the user enters a search term.
EnterSearchTerm ==
  /\ page = "Search Events"
  /\ events # << >>
  /\ \E term \in SearchTerms \ {search_term} :
       Script(events, page, editing_event_id, {Placeholder}, kept_sort, kept_field, term)
  /\ msg' = ""
  /\ UNCHANGED << events, drawn >>

Next ==
  \/ Navigate
  \/ \E data \in FormInputs : SubmitEvent(data)
  \/ ChooseSort
  \/ ChooseEdit
  \/ \E new_data \in FormInputs : SaveChanges(new_data)
  \/ \E event_id_to_delete \in IDs : DeleteSelectedEvent(event_id_to_delete)
  \/ ChooseSearchField
  \/ EnterSearchTerm

Spec == Init /\ [][Next]_vars

\* ---------------------------------------------------------------- vocabulary of the properties

\* Empty, or nothing but whitespace.
IsBlank(s) == \A i \in 1..Len(s) : s[i] = " "

\* s without its leading and trailing whitespace.
Trimmed(s) ==
  LET solid == {i \in 1..Len(s) : s[i] # " "}
  IN  IF solid = {} THEN << >>
      ELSE SubSeq(s, CHOOSE i \in solid : \A j \in solid : i <= j,
                     CHOOSE i \in solid : \A j \in solid : j <= i)

\* sub occurs in s, character for character.
IsSubstring(sub, s) ==
  \E off \in 0..(Len(s) - Len(sub)) : \A j \in 1..Len(sub) : s[off + j] = sub[j]

\* The seven fields of a record are those of the input d.
FieldsEqual(e, d) ==
  /\ e.name = d.name
  /\ e.date = d.date
  /\ e.time = d.time
  /\ e.location = d.location
  /\ e.attendees = d.attendees
  /\ e.budget = d.budget
  /\ e.status = d.status

\* An input that passes the field validation of the store's contract.
ValidInput(d) ==
  /\ ~IsBlank(d.name)
  /\ ~IsBlank(d.location)
  /\ d.attendees >= 1
  /\ d.budget >= 0
  /\ "status" \in DOMAIN d
  /\ d.status \in Statuses

\* ev without its k-th record.
WithoutIndex(ev, k) == SubSeq(ev, 1, k - 1) \o SubSeq(ev, k + 1, Len(ev))

\* The column an option of the sort selectbox sorts by.
SortColumn(option) ==
  IF option \in {"Date (Newest first)", "Date (Oldest first)"} THEN "date"
  ELSE IF option = "Attendees (High to Low)" THEN "attendees"
  ELSE "name"

\* The index of record e in the collection ev.
IndexOf(ev, e) == CHOOSE k \in 1..Len(ev) : ev[k] = e

\* view holds the records of ev, each once.
IsPermutationOf(view, ev) ==
  /\ Len(view) = Len(ev)
  /\ \A k \in 1..Len(ev) : \E i \in 1..Len(view) : view[i] = ev[k]

\* Records of view with equal keys are in the order they have in ev.
TiesInCollectionOrder(view, ev, by) ==
  \A i, j \in 1..Len(view) :
    (i < j /\ ~key_lt(by, view[i], view[j]) /\ ~key_lt(by, view[j], view[i]))
      => IndexOf(ev, view[i]) < IndexOf(ev, view[j])

\* ---------------------------------------------------------------- properties

\* C1: after any sequence of add, update and remove calls from the seeded
\* collection, no two records of the collection have the same id.
C1_UniqueIds ==
  \A i, j \in 1..Len(events) : i # j => events[i].id # events[j].id

\* C1 witness: a collection that an add has grown beyond the two seeded events.
C1_Witness == msg = "added" /\ Len(events) >= 3

\* C2: an add of a valid input leaves one more record: the prior records are
\* unchanged and in the same order, the new record is last, its seven fields
\* are the input's and its id did not occur in the collection before.
C2_AddAppends ==
  [][ \A data \in CallInputs :
        (ValidInput(data) /\ CallAddNewEvent(data)) =>
          /\ Len(events') = Len(events) + 1
          /\ SubSeq(events', 1, Len(events)) = events
          /\ FieldsEqual(events'[Len(events')], data)
          /\ events'[Len(events')].id \notin ids_of(events) ]_vars

\* C2 witness: a valid input has been added as the third record.
C2_Witness ==
  /\ msg = "added"
  /\ Len(events) = 3
  /\ ~IsBlank(events[3].name)
  /\ ~IsBlank(events[3].location)
  /\ events[3].attendees >= 1

\* C3 as claimed: a submitted add whose name or location is empty or only
\* whitespace is rejected with ValidationFailed and leaves the collection as
\* it was.
C3_BlankAddRejected ==
  [][ \A data \in FormInputs :
        ((IsBlank(data.name) \/ IsBlank(data.location)) /\ SubmitEvent(data)) =>
          (events' = events /\ msg' = "ValidationFailed") ]_vars

\* C4 as claimed: a saved edit of an existing event whose new name or location
\* is empty or only whitespace (or attendees < 1, or budget < 0) is rejected
\* with ValidationFailed and leaves the collection as it was.
C4_InvalidUpdateRejected ==
  [][ \A new_data \in FormInputs :
        (~ValidInput(new_data) /\ SaveChanges(new_data)) =>
          (events' = events /\ msg' = "ValidationFailed") ]_vars

\* C5: an update or a remove of an id that is not in the collection reports
\* NotFound and leaves the collection exactly as it was; and after a remove of
\* an id the id is not in the collection, so that a second remove of it is
\* such a call.
C5_AbsentIdNotFound ==
  [][ \A event_id \in IDs :
        /\ (event_id \notin ids_of(events) /\ CallDeleteEvent(event_id)) =>
             (events' = events /\ msg' = "NotFound")
        /\ \A new_data \in EditInputs :
             (event_id \notin ids_of(events) /\ CallEditEvent(event_id, new_data)) =>
               (events' = events /\ msg' = "NotFound")
        /\ CallDeleteEvent(event_id) => event_id \notin ids_of(events') ]_vars

\* C5 witness: NotFound was reported once an event had been removed.
C5_Witness == msg = "NotFound" /\ Len(events) < Cardinality(drawn)

\* C6: a successful update of an existing id replaces the seven mutable fields
\* of the record with that id, keeps its id and its position, and leaves every
\* other record and the length of the collection unchanged.
C6_UpdateReplacesOne ==
  [][ \A event_id \in IDs : \A new_data \in EditInputs :
        (event_id \in ids_of(events) /\ CallEditEvent(event_id, new_data)) =>
          /\ Len(events') = Len(events)
          /\ \A i \in 1..Len(events) :
               IF events[i].id = event_id
               THEN events'[i].id = event_id /\ FieldsEqual(events'[i], new_data)
               ELSE events'[i] = events[i] ]_vars

\* C6 witness: an update has replaced the fields of a record.
C6_Witness ==
  /\ msg = "updated"
  /\ \E i \in 1..Len(events) : \E d \in EditInputs : FieldsEqual(events[i], d)

\* C7: a remove of an id in the collection deletes exactly the record with
\* that id: no record has the id afterwards, every other record is still
\* there, unchanged and in the same relative order.
C7_RemoveDeletesOne ==
  [][ \A event_id \in IDs :
        (event_id \in ids_of(events) /\ CallDeleteEvent(event_id)) =>
          /\ event_id \notin ids_of(events')
          /\ \E k \in 1..Len(events) :
               events[k].id = event_id /\ events' = WithoutIndex(events, k) ]_vars

\* C7 witness: a remove has left other records behind.
C7_Witness == msg = "deleted" /\ Len(events) >= 1

C9_SearchLiteralTrimmed ==
  (page = "Search Events" /\ events # << >> /\ ~IsBlank(search_term)) =>
    filtered_df =
      SelectSeq(events,
                LAMBDA e : IsSubstring(lower(Trimmed(search_term)), lower(e[search_field])))

\* C10: once a handler has completed, editing_event_id is None or the id of a
\* record of the collection.
C10_EditingIdValid ==
  editing_event_id = None \/ editing_event_id \in ids_of(events)

\* C10 witness: a delete has completed on the view page with events left, and
\* nothing is being edited.
C10_Witness ==
  /\ msg = "deleted"
  /\ page = "View & Sort Events"
  /\ events # << >>
  /\ editing_event_id = None

====
